---- MODULE Spec2Model ----
(***************************************************************************)
(* Model of ApigwHttpApiLambdaDynamodbPythonCdkStack.__init__              *)
(* (stacks/apigw_http_api_lambda_dynamodb_python_cdk_stack.py).            *)
(*                                                                         *)
(* The constructor is a straight-line sequence of statements; each         *)
(* statement either creates a construct or wires two existing ones.  The   *)
(* model has one action per statement, a program counter pc, and the       *)
(* resource graph built so far.  Resources are kept as sets of records,    *)
(* empty until the statement that creates them has run.                    *)
(*                                                                         *)
(* Inputs of the constructor: the stack's region (env in **kwargs) and the *)
(* number of availability zones of the environment.  Names the framework   *)
(* generates (table name, REST API id, web ACL ARN) are unknown at         *)
(* construction time and are drawn nondeterministically.                   *)
(***************************************************************************)
EXTENDS Integers, Sequences, FiniteSets

\* ---------------------------------------------------------------- bounds
MaxAzs == 3
MaxUnique == 2

Regions == {"us-east-1", "eu-west-1"}

\* ---------------------------------------------------------------- names
\* A name is either a literal string of the source (suffix 0) or a name the
\* framework generates for a construct (suffix >= 1).
Literal(s) == [id |-> s, suffix |-> 0]
Generated(s, n) == [id |-> s, suffix |-> n]

TABLE_NAME == "demo_table"

VARIABLES pc, region, azs, created, edges,
          vpcs, logGroups, flowLogs, endpoints,
          tables, functions, apis, webAcls, assocs, alarms

vars == <<pc, region, azs, created, edges,
          vpcs, logGroups, flowLogs, endpoints,
          tables, functions, apis, webAcls, assocs, alarms>>

\* ------------------------------------------------- values of the source
\* subnet_configuration of the "Ingress" VPC: one entry, PRIVATE_ISOLATED.
\* Variant: the same entry with a public subnet type.
SubnetConfigurationPublic ==
    {[name |-> "Private-Subnet", subnet_type |-> "PUBLIC", cidr_mask |-> 24]}
SubnetConfiguration ==
    {[name |-> "Private-Subnet", subnet_type |-> "PRIVATE_ISOLATED", cidr_mask |-> 24]}

\* vpc_subnets=ec2.SubnetSelection(subnet_type=PRIVATE_ISOLATED): the subnets
\* of the given VPC record that have that type.
SelectSubnets(v, type) == {s \in v.subnets : s.subnet_type = type}

\* An IAM action or action pattern, as a sequence of the CamelCase words of
\* its name after the service prefix; "*" is the wildcard.  The wildcards of
\* the source all stand at a word boundary.
EndpointPolicyActions ==
    { <<"dynamodb", "Describe", "Stream">>,
      <<"dynamodb", "Describe", "Table">>,
      <<"dynamodb", "Get", "*">>,
      <<"dynamodb", "Query">>,
      <<"dynamodb", "Scan">>,
      <<"dynamodb", "Create", "Table">>,
      <<"dynamodb", "Delete", "*">>,
      <<"dynamodb", "Update", "*">>,
      <<"dynamodb", "Put", "Item">> }

\* The action set Table.grant_write_data gives the grantee.
WriteDataActions ==
    { <<"dynamodb", "Batch", "Write", "Item">>,
      <<"dynamodb", "Put", "Item">>,
      <<"dynamodb", "Update", "Item">>,
      <<"dynamodb", "Delete", "Item">>,
      <<"dynamodb", "Describe", "Table">> }

\* Whether action a matches pattern p ("*" matches any run of words).
RECURSIVE Glob(_, _)
Glob(p, a) ==
    IF p = <<>> THEN a = <<>>
    ELSE IF Head(p) = "*"
         THEN Glob(Tail(p), a) \/ (a # <<>> /\ Glob(p, Tail(a)))
         ELSE a # <<>> /\ Head(a) = Head(p) /\ Glob(Tail(p), Tail(a))

\* Whether a policy statement with the given action patterns allows action a.
Allows(patterns, a) == \E p \in patterns : Glob(p, a)

\* Table capacities.
WriteCapacity == 100
ReadCapacity == 5

\* auto_scale_write_capacity(min_capacity=10, max_capacity=200)
\* Variant: a minimum above the table's base write capacity.
WriteScalingPropsNarrow == [min_capacity |-> 150, max_capacity |-> 200]
WriteScalingProps == [min_capacity |-> 10, max_capacity |-> 200]

TargetUtilizationPercent == 70

\* deploy_options: throttling of the Endpoint's stage
\* Variant: a rate limit twice the one the reservation was computed for.
ThrottlingRateLimitDoubled == 2 * 100
ThrottlingRateLimit == 100
ThrottlingBurstLimit == 200

\* reserved_concurrent_executions of ApiHandler
\* Variant: one execution environment reserved per request per second.
ReservedAtRateLimit == ThrottlingRateLimit
ReservedConcurrentExecutions == 60

\* The assumptions the source states for the reservation (comment at the
\* ApiHandler): average execution time in ms, and buffer in percent.
AvgExecutionMs == 500
BufferPercent == 20

\* The value injected as TABLE_NAME: the table's (generated) name.
\* Variant: the module constant TABLE_NAME (the construct id) instead.
TableNameValueLiteral(t) == Literal(TABLE_NAME)
TableNameValue(t) == t.table_name

\* The f-string of the association's resource_arn.
\* Variant: the REST API's name in place of its generated id.
StageArnByName(r, api_id, stage) ==
    [prefix |-> "arn:aws:apigateway", region |-> r, account |-> "",
     restapis |-> Literal("Endpoint"), stages |-> stage]
StageArn(r, api_id, stage) ==
    [prefix |-> "arn:aws:apigateway", region |-> r, account |-> "",
     restapis |-> api_id, stages |-> stage]

\* dimensions_map of the WafBlockedRequestsAlarm metric.
\* Variant: the WebACL dimension spelled differently from the ACL's metric name.
WafAlarmDimensionsOtherAcl(r) ==
    { [name |-> "WebACL", value |-> "WebAcl"],
      [name |-> "Region", value |-> r],
      [name |-> "Rule", value |-> "RateLimitRule"] }
WafAlarmDimensions(r) ==
    { [name |-> "WebACL", value |-> "ApiWebAcl"],
      [name |-> "Region", value |-> r],
      [name |-> "Rule", value |-> "RateLimitRule"] }

\* The constructs each statement of __init__ reads (the local variables it
\* mentions), by statement.
\* Variant: the ApiHandler reading the Endpoint, which a later statement makes.
UsesForward(stmt) ==
    CASE stmt = "FlowLog" -> {"Ingress", "VpcFlowLogs"}
      [] stmt = "DynamoDBVpce" -> {"Ingress"}
      [] stmt = "add_to_policy" -> {"DynamoDBVpce"}
      [] stmt = "auto_scale_write_capacity" -> {TABLE_NAME}
      [] stmt = "scale_on_utilization" -> {"WriteScaling"}
      [] stmt = "ApiHandler" -> {"Ingress", "Endpoint"}
      [] stmt = "grant_write_data" -> {TABLE_NAME, "ApiHandler"}
      [] stmt = "add_environment" -> {TABLE_NAME, "ApiHandler"}
      [] stmt = "Endpoint" -> {"ApiHandler", "ApiGatewayAccessLogs"}
      [] stmt = "WebAclAssociation" -> {"Endpoint", "ApiWebAcl"}
      [] stmt = "LambdaErrorAlarm" -> {"ApiHandler"}
      [] stmt = "LambdaConcurrencyAlarm" -> {"ApiHandler"}
      [] stmt = "ApiGateway5xxAlarm" -> {"Endpoint"}
      [] stmt = "ApiGatewayThrottleAlarm" -> {"Endpoint"}
      [] stmt = "DynamoDBThrottleAlarm" -> {TABLE_NAME}
      [] stmt = "DynamoDBWriteThrottleAlarm" -> {TABLE_NAME}
      [] OTHER -> {}
Uses(stmt) ==
    CASE stmt = "FlowLog" -> {"Ingress", "VpcFlowLogs"}
      [] stmt = "DynamoDBVpce" -> {"Ingress"}
      [] stmt = "add_to_policy" -> {"DynamoDBVpce"}
      [] stmt = "auto_scale_write_capacity" -> {TABLE_NAME}
      [] stmt = "scale_on_utilization" -> {"WriteScaling"}
      [] stmt = "ApiHandler" -> {"Ingress"}
      [] stmt = "grant_write_data" -> {TABLE_NAME, "ApiHandler"}
      [] stmt = "add_environment" -> {TABLE_NAME, "ApiHandler"}
      [] stmt = "Endpoint" -> {"ApiHandler", "ApiGatewayAccessLogs"}
      [] stmt = "WebAclAssociation" -> {"Endpoint", "ApiWebAcl"}
      [] stmt = "LambdaErrorAlarm" -> {"ApiHandler"}
      [] stmt = "LambdaConcurrencyAlarm" -> {"ApiHandler"}
      [] stmt = "ApiGateway5xxAlarm" -> {"Endpoint"}
      [] stmt = "ApiGatewayThrottleAlarm" -> {"Endpoint"}
      [] stmt = "DynamoDBThrottleAlarm" -> {TABLE_NAME}
      [] stmt = "DynamoDBWriteThrottleAlarm" -> {TABLE_NAME}
      [] OTHER -> {}

\* ------------------------------------------------------------ the pass
\* Before the constructor body runs: an empty graph, for any region and any
\* number of availability zones.
Init ==
    /\ pc = "Ingress"
    /\ region \in Regions
    /\ azs \in 1..MaxAzs
    /\ created = {}
    /\ edges = {}
    /\ vpcs = {}
    /\ logGroups = {}
    /\ flowLogs = {}
    /\ endpoints = {}
    /\ tables = {}
    /\ functions = {}
    /\ apis = {}
    /\ webAcls = {}
    /\ assocs = {}
    /\ alarms = {}

\* Statement stmt runs, control moves to next, the constructs in new now
\* exist, and the statement's reads are recorded as edges.
Advance(stmt, next, new) ==
    /\ pc = stmt
    /\ pc' = next
    /\ created' = created \cup new
    /\ edges' = edges \cup {<<stmt, u>> : u \in Uses(stmt)}
    /\ UNCHANGED <<region, azs>>

\* vpc = ec2.Vpc(self, "Ingress", ...): one subnet per configuration entry
\* and availability zone.
CreateVpc ==
    /\ Advance("Ingress", "VpcFlowLogs", {"Ingress"})
    /\ vpcs' = vpcs \cup
         {[id |-> "Ingress", cidr |-> "10.1.0.0/16",
           subnets |-> {[name |-> c.name, subnet_type |-> c.subnet_type,
                         cidr_mask |-> c.cidr_mask, az |-> z, vpc |-> "Ingress"]
                        : c \in SubnetConfiguration, z \in 1..azs}]}
    /\ UNCHANGED <<logGroups, flowLogs, endpoints, tables, functions, apis,
                   webAcls, assocs, alarms>>

\* vpc_flow_log_group = logs_.LogGroup(self, "VpcFlowLogs", ...)
CreateVpcFlowLogGroup ==
    /\ Advance("VpcFlowLogs", "FlowLog", {"VpcFlowLogs"})
    /\ logGroups' = logGroups \cup {[id |-> "VpcFlowLogs", retention |-> "ONE_YEAR"]}
    /\ UNCHANGED <<vpcs, flowLogs, endpoints, tables, functions, apis,
                   webAcls, assocs, alarms>>

\* vpc.add_flow_log("FlowLog", destination=..., traffic_type=ALL)
AddFlowLog ==
    /\ Advance("FlowLog", "DynamoDBVpce", {"FlowLog"})
    /\ \E v \in vpcs, g \in logGroups :
         /\ v.id = "Ingress"
         /\ g.id = "VpcFlowLogs"
         /\ flowLogs' = flowLogs \cup
              {[id |-> "FlowLog", vpc |-> v.id, destination |-> g.id,
                traffic_type |-> "ALL"]}
    /\ UNCHANGED <<vpcs, logGroups, endpoints, tables, functions, apis,
                   webAcls, assocs, alarms>>

\* dynamo_db_endpoint = ec2.GatewayVpcEndpoint(self, "DynamoDBVpce", ...)
CreateDynamoDbEndpoint ==
    /\ Advance("DynamoDBVpce", "add_to_policy", {"DynamoDBVpce"})
    /\ \E v \in vpcs :
         /\ v.id = "Ingress"
         /\ endpoints' = endpoints \cup
              {[id |-> "DynamoDBVpce", service |-> "DYNAMODB", vpc |-> v.id,
                policy |-> {}]}
    /\ UNCHANGED <<vpcs, logGroups, flowLogs, tables, functions, apis,
                   webAcls, assocs, alarms>>

\* dynamo_db_endpoint.add_to_policy(iam.PolicyStatement(...))
AddToPolicy ==
    /\ Advance("add_to_policy", TABLE_NAME, {})
    /\ endpoints' =
         {IF e.id = "DynamoDBVpce"
          THEN [e EXCEPT !.policy = @ \cup
                  {[principals |-> "*", actions |-> EndpointPolicyActions,
                    resources |-> {"*"}]}]
          ELSE e : e \in endpoints}
    /\ UNCHANGED <<vpcs, logGroups, flowLogs, tables, functions, apis,
                   webAcls, assocs, alarms>>

\* demo_table = dynamodb_.Table(self, TABLE_NAME, ...): no table_name is
\* given, so the table's name is generated.
CreateTable ==
    /\ Advance(TABLE_NAME, "auto_scale_write_capacity", {TABLE_NAME})
    /\ \E n \in 1..MaxUnique :
         tables' = tables \cup
           {[id |-> TABLE_NAME, table_name |-> Generated(TABLE_NAME, n),
             partition_key |-> [name |-> "id", type |-> "STRING"],
             billing_mode |-> "PROVISIONED",
             read_capacity |-> ReadCapacity, write_capacity |-> WriteCapacity,
             point_in_time_recovery |-> TRUE,
             stream |-> "NEW_AND_OLD_IMAGES",
             write_scaling |-> {}]}
    /\ UNCHANGED <<vpcs, logGroups, flowLogs, endpoints, functions, apis,
                   webAcls, assocs, alarms>>

\* write_scaling = demo_table.auto_scale_write_capacity(min_capacity=10,
\* max_capacity=200)
AutoScaleWriteCapacity ==
    /\ Advance("auto_scale_write_capacity", "scale_on_utilization", {"WriteScaling"})
    /\ tables' =
         {IF t.id = TABLE_NAME
          THEN [t EXCEPT !.write_scaling =
                  {[min_capacity |-> WriteScalingProps.min_capacity,
                    max_capacity |-> WriteScalingProps.max_capacity,
                    target_utilization_percent |-> {}]}]
          ELSE t : t \in tables}
    /\ UNCHANGED <<vpcs, logGroups, flowLogs, endpoints, functions, apis,
                   webAcls, assocs, alarms>>

\* write_scaling.scale_on_utilization(target_utilization_percent=70)
ScaleOnUtilization ==
    /\ Advance("scale_on_utilization", "ApiHandler", {})
    /\ tables' =
         {IF t.id = TABLE_NAME
          THEN [t EXCEPT !.write_scaling =
                  {[w EXCEPT !.target_utilization_percent =
                      @ \cup {TargetUtilizationPercent}] : w \in @}]
          ELSE t : t \in tables}
    /\ UNCHANGED <<vpcs, logGroups, flowLogs, endpoints, functions, apis,
                   webAcls, assocs, alarms>>

\* api_hanlder = lambda_.Function(self, "ApiHandler", ...): placed in the
\* vpc's subnets of type PRIVATE_ISOLATED; no environment= is given.
CreateFunction ==
    /\ Advance("ApiHandler", "grant_write_data", {"ApiHandler"})
    /\ \E v \in vpcs :
         /\ v.id = "Ingress"
         /\ functions' = functions \cup
              {[id |-> "ApiHandler", function_name |-> Literal("apigw_handler"),
                runtime |-> "PYTHON_3_9", handler |-> "index.handler",
                vpc |-> v.id,
                subnets |-> SelectSubnets(v, "PRIVATE_ISOLATED"),
                memory_size |-> 1024, timeout_minutes |-> 5,
                tracing |-> "ACTIVE",
                reserved_concurrent_executions |-> ReservedConcurrentExecutions,
                environment |-> {},
                role_policy |-> {}]}
    /\ UNCHANGED <<vpcs, logGroups, flowLogs, endpoints, tables, apis,
                   webAcls, assocs, alarms>>

\* demo_table.grant_write_data(api_hanlder)
GrantWriteData ==
    /\ Advance("grant_write_data", "add_environment", {})
    /\ \E t \in tables :
         /\ t.id = TABLE_NAME
         /\ functions' =
              {IF f.id = "ApiHandler"
               THEN [f EXCEPT !.role_policy = @ \cup
                       {[actions |-> WriteDataActions, resource |-> t.id]}]
               ELSE f : f \in functions}
    /\ UNCHANGED <<vpcs, logGroups, flowLogs, endpoints, tables, apis,
                   webAcls, assocs, alarms>>

\* api_hanlder.add_environment("TABLE_NAME", demo_table.table_name): sets
\* the key, replacing an earlier value of the same key.
AddEnvironment ==
    /\ Advance("add_environment", "ApiGatewayAccessLogs", {})
    /\ \E t \in tables :
         /\ t.id = TABLE_NAME
         /\ functions' =
              {IF f.id = "ApiHandler"
               THEN [f EXCEPT !.environment =
                       {e \in @ : e.key # "TABLE_NAME"} \cup
                       {[key |-> "TABLE_NAME", value |-> TableNameValue(t)]}]
               ELSE f : f \in functions}
    /\ UNCHANGED <<vpcs, logGroups, flowLogs, endpoints, tables, apis,
                   webAcls, assocs, alarms>>

\* api_log_group = logs_.LogGroup(self, "ApiGatewayAccessLogs", ...)
CreateApiLogGroup ==
    /\ Advance("ApiGatewayAccessLogs", "Endpoint", {"ApiGatewayAccessLogs"})
    /\ logGroups' = logGroups \cup
         {[id |-> "ApiGatewayAccessLogs", retention |-> "ONE_YEAR"]}
    /\ UNCHANGED <<vpcs, flowLogs, endpoints, tables, functions, apis,
                   webAcls, assocs, alarms>>

\* api = apigw_.LambdaRestApi(self, "Endpoint", handler=api_hanlder,
\* deploy_options=...): the REST API id is generated; neither a name nor a
\* stage name is given, so the API is named after the construct and the
\* deployment stage is the framework's default one, "prod".
CreateApi ==
    /\ Advance("Endpoint", "ApiWebAcl", {"Endpoint"})
    /\ \E f \in functions, g \in logGroups, n \in 1..MaxUnique :
         /\ f.id = "ApiHandler"
         /\ g.id = "ApiGatewayAccessLogs"
         /\ apis' = apis \cup
              {[id |-> "Endpoint", rest_api_id |-> Generated("Endpoint", n),
                rest_api_name |-> Literal("Endpoint"),
                handler |-> f.id,
                deployment_stage |->
                  [stage_name |-> "prod",
                   throttling_rate_limit |-> ThrottlingRateLimit,
                   throttling_burst_limit |-> ThrottlingBurstLimit,
                   tracing_enabled |-> TRUE,
                   access_log_destination |-> g.id]]}
    /\ UNCHANGED <<vpcs, logGroups, flowLogs, endpoints, tables, functions,
                   webAcls, assocs, alarms>>

\* web_acl = wafv2_.CfnWebACL(self, "ApiWebAcl", ...): its ARN is generated.
CreateWebAcl ==
    /\ Advance("ApiWebAcl", "WebAclAssociation", {"ApiWebAcl"})
    /\ \E n \in 1..MaxUnique :
         webAcls' = webAcls \cup
           {[id |-> "ApiWebAcl", attr_arn |-> Generated("ApiWebAcl", n),
             scope |-> "REGIONAL", default_action |-> "allow",
             metric_name |-> "ApiWebAcl",
             rules |-> {[name |-> "RateLimitRule", priority |-> 1,
                         limit |-> 2000, aggregate_key_type |-> "IP",
                         action |-> "block",
                         metric_name |-> "RateLimitRule"]}]}
    /\ UNCHANGED <<vpcs, logGroups, flowLogs, endpoints, tables, functions,
                   apis, assocs, alarms>>

\* wafv2_.CfnWebACLAssociation(self, "WebAclAssociation", resource_arn=...,
\* web_acl_arn=web_acl.attr_arn)
CreateWebAclAssociation ==
    /\ Advance("WebAclAssociation", "LambdaErrorAlarm", {"WebAclAssociation"})
    /\ \E a \in apis, w \in webAcls :
         /\ a.id = "Endpoint"
         /\ w.id = "ApiWebAcl"
         /\ assocs' = assocs \cup
              {[id |-> "WebAclAssociation",
                resource_arn |->
                  StageArn(region, a.rest_api_id, a.deployment_stage.stage_name),
                web_acl_arn |-> w.attr_arn]}
    /\ UNCHANGED <<vpcs, logGroups, flowLogs, endpoints, tables, functions,
                   apis, webAcls, alarms>>

\* cloudwatch_.Alarm(self, id, metric=..., threshold=..., evaluation_periods=...)
\* A metric obtained from a construct's metric method carries that construct
\* as its source and leaves its dimensions to the construct; a metric built
\* with cloudwatch_.Metric has no source and names what it observes by its
\* dimensions alone.
Alarm(id, source, namespace, metric_name, dimensions, threshold, periods) ==
    [id |-> id,
     metric |-> [source |-> source, namespace |-> namespace,
                 metric_name |-> metric_name, dimensions |-> dimensions],
     threshold |-> threshold, evaluation_periods |-> periods]

\* "LambdaErrorAlarm": metric=api_hanlder.metric_errors()
CreateLambdaErrorAlarm ==
    /\ Advance("LambdaErrorAlarm", "LambdaConcurrencyAlarm", {"LambdaErrorAlarm"})
    /\ \E f \in functions :
         /\ f.id = "ApiHandler"
         /\ alarms' = alarms \cup
              {Alarm("LambdaErrorAlarm", f.id, "AWS/Lambda", "Errors", {}, 1, 1)}
    /\ UNCHANGED <<vpcs, logGroups, flowLogs, endpoints, tables, functions,
                   apis, webAcls, assocs>>

\* "LambdaConcurrencyAlarm": metric=api_hanlder.metric_concurrent_executions()
CreateLambdaConcurrencyAlarm ==
    /\ Advance("LambdaConcurrencyAlarm", "ApiGateway5xxAlarm",
               {"LambdaConcurrencyAlarm"})
    /\ \E f \in functions :
         /\ f.id = "ApiHandler"
         /\ alarms' = alarms \cup
              {Alarm("LambdaConcurrencyAlarm", f.id, "AWS/Lambda",
                     "ConcurrentExecutions", {}, 48, 2)}
    /\ UNCHANGED <<vpcs, logGroups, flowLogs, endpoints, tables, functions,
                   apis, webAcls, assocs>>

\* "ApiGateway5xxAlarm": metric=api.metric_server_error()
CreateApiGateway5xxAlarm ==
    /\ Advance("ApiGateway5xxAlarm", "ApiGatewayThrottleAlarm",
               {"ApiGateway5xxAlarm"})
    /\ \E a \in apis :
         /\ a.id = "Endpoint"
         /\ alarms' = alarms \cup
              {Alarm("ApiGateway5xxAlarm", a.id, "AWS/ApiGateway", "5XXError",
                     {}, 5, 2)}
    /\ UNCHANGED <<vpcs, logGroups, flowLogs, endpoints, tables, functions,
                   apis, webAcls, assocs>>

\* "ApiGatewayThrottleAlarm": metric=api.metric_client_error()
CreateApiGatewayThrottleAlarm ==
    /\ Advance("ApiGatewayThrottleAlarm", "WafBlockedRequestsAlarm",
               {"ApiGatewayThrottleAlarm"})
    /\ \E a \in apis :
         /\ a.id = "Endpoint"
         /\ alarms' = alarms \cup
              {Alarm("ApiGatewayThrottleAlarm", a.id, "AWS/ApiGateway",
                     "4XXError", {}, 50, 2)}
    /\ UNCHANGED <<vpcs, logGroups, flowLogs, endpoints, tables, functions,
                   apis, webAcls, assocs>>

\* "WafBlockedRequestsAlarm": metric=cloudwatch_.Metric(namespace="AWS/WAFV2",
\* metric_name="BlockedRequests", dimensions_map={...}); the statement reads
\* no construct, only self.region.
CreateWafBlockedRequestsAlarm ==
    /\ Advance("WafBlockedRequestsAlarm", "DynamoDBThrottleAlarm",
               {"WafBlockedRequestsAlarm"})
    /\ alarms' = alarms \cup
         {Alarm("WafBlockedRequestsAlarm", "", "AWS/WAFV2", "BlockedRequests",
                WafAlarmDimensions(region), 100, 1)}
    /\ UNCHANGED <<vpcs, logGroups, flowLogs, endpoints, tables, functions,
                   apis, webAcls, assocs>>

\* "DynamoDBThrottleAlarm": metric=demo_table.metric_user_errors()
CreateDynamoDBThrottleAlarm ==
    /\ Advance("DynamoDBThrottleAlarm", "DynamoDBWriteThrottleAlarm",
               {"DynamoDBThrottleAlarm"})
    /\ \E t \in tables :
         /\ t.id = TABLE_NAME
         /\ alarms' = alarms \cup
              {Alarm("DynamoDBThrottleAlarm", t.id, "AWS/DynamoDB",
                     "UserErrors", {}, 10, 2)}
    /\ UNCHANGED <<vpcs, logGroups, flowLogs, endpoints, tables, functions,
                   apis, webAcls, assocs>>

\* "DynamoDBWriteThrottleAlarm": metric=demo_table.metric("WriteThrottleEvents")
CreateDynamoDBWriteThrottleAlarm ==
    /\ Advance("DynamoDBWriteThrottleAlarm", "done",
               {"DynamoDBWriteThrottleAlarm"})
    /\ \E t \in tables :
         /\ t.id = TABLE_NAME
         /\ alarms' = alarms \cup
              {Alarm("DynamoDBWriteThrottleAlarm", t.id, "AWS/DynamoDB",
                     "WriteThrottleEvents", {}, 5, 2)}
    /\ UNCHANGED <<vpcs, logGroups, flowLogs, endpoints, tables, functions,
                   apis, webAcls, assocs>>

Next ==
    \/ CreateVpc
    \/ CreateVpcFlowLogGroup
    \/ AddFlowLog
    \/ CreateDynamoDbEndpoint
    \/ AddToPolicy
    \/ CreateTable
    \/ AutoScaleWriteCapacity
    \/ ScaleOnUtilization
    \/ CreateFunction
    \/ GrantWriteData
    \/ AddEnvironment
    \/ CreateApiLogGroup
    \/ CreateApi
    \/ CreateWebAcl
    \/ CreateWebAclAssociation
    \/ CreateLambdaErrorAlarm
    \/ CreateLambdaConcurrencyAlarm
    \/ CreateApiGateway5xxAlarm
    \/ CreateApiGatewayThrottleAlarm
    \/ CreateWafBlockedRequestsAlarm
    \/ CreateDynamoDBThrottleAlarm
    \/ CreateDynamoDBWriteThrottleAlarm

Spec == Init /\ [][Next]_vars

\* ------------------------------------------------------------ properties
Ids(S) == {x.id : x \in S}

\* C1: once write autoscaling is attached to the table, and in every later
\* state of the pass, min_capacity <= write_capacity <= max_capacity.
C1_WriteBoundsBracketBase ==
    \A t \in tables : \A w \in t.write_scaling :
        /\ w.min_capacity <= t.write_capacity
        /\ t.write_capacity <= w.max_capacity

\* C1 case: the pass has finished and the table carries its autoscaling.
C1_Witness ==
    /\ pc = "done"
    /\ \E t \in tables : \E w \in t.write_scaling :
         w.target_utilization_percent # {}

\* C2 as stated: the function's reserved concurrency is less than the
\* stage's rate limit times the average execution time (500 ms).
C2_ReservedBelowRateTimesExecTime ==
    \A f \in functions : \A a \in apis :
        f.reserved_concurrent_executions * 1000
          < a.deployment_stage.throttling_rate_limit * AvgExecutionMs

\* C2 amended: the reserved concurrency is at most the rate limit times the
\* average execution time increased by the 20% buffer, and is less than the
\* rate limit itself.
C2_ReservedWithinBufferedProduct ==
    \A f \in functions : \A a \in apis :
        /\ f.reserved_concurrent_executions * 1000 * 100
             <= a.deployment_stage.throttling_rate_limit * AvgExecutionMs
                  * (100 + BufferPercent)
        /\ f.reserved_concurrent_executions
             < a.deployment_stage.throttling_rate_limit

\* C2 case: both the function and the gateway exist.
C2_Witness ==
    /\ \E f \in functions : f.reserved_concurrent_executions > 0
    /\ \E a \in apis : a.handler \in Ids(functions)

\* C3: each of the seven alarms observes a resource of the graph: the Lambda
\* alarms the ApiHandler, the gateway alarms the Endpoint, the table alarms
\* the demo table, and the WAF alarm's WebACL, Rule and Region dimensions
\* name the ApiWebAcl web ACL, its RateLimitRule rule and the stack's region.
C3_AlarmsObserveGraphResources ==
    /\ \A al \in alarms :
         CASE al.id \in {"LambdaErrorAlarm", "LambdaConcurrencyAlarm"} ->
                \E f \in functions :
                    f.id = "ApiHandler" /\ al.metric.source = f.id
           [] al.id \in {"ApiGateway5xxAlarm", "ApiGatewayThrottleAlarm"} ->
                \E a \in apis :
                    a.id = "Endpoint" /\ al.metric.source = a.id
           [] al.id \in {"DynamoDBThrottleAlarm", "DynamoDBWriteThrottleAlarm"} ->
                \E t \in tables :
                    t.id = TABLE_NAME /\ al.metric.source = t.id
           [] al.id = "WafBlockedRequestsAlarm" ->
                \E w \in webAcls : \E r \in w.rules :
                    /\ w.id = "ApiWebAcl"
                    /\ r.name = "RateLimitRule"
                    /\ al.metric.dimensions =
                         { [name |-> "WebACL", value |-> w.metric_name],
                           [name |-> "Region", value |-> region],
                           [name |-> "Rule", value |-> r.metric_name] }
           [] OTHER -> FALSE
    /\ pc = "done" => Cardinality(alarms) = 7

\* C3 case: the pass has finished with the WAF alarm and a table alarm made.
C3_Witness ==
    /\ pc = "done"
    /\ {"WafBlockedRequestsAlarm", "DynamoDBWriteThrottleAlarm"} \subseteq Ids(alarms)

\* C4: the association's resource ARN names the stack's region, the id of
\* the REST API of this graph and that API's deployment stage name, and its
\* web ACL ARN is the ARN of the web ACL of this graph.
C4_AssociationTargetsOwnStage ==
    \A s \in assocs :
        \E a \in apis : \E w \in webAcls :
            /\ s.resource_arn.prefix = "arn:aws:apigateway"
            /\ s.resource_arn.region = region
            /\ s.resource_arn.restapis = a.rest_api_id
            /\ s.resource_arn.stages = a.deployment_stage.stage_name
            /\ s.web_acl_arn = w.attr_arn

\* C4 case: the association has been created.
C4_Witness == \E s \in assocs : s.id = "WebAclAssociation"

\* The references the records of the graph hold all lead to records of the
\* graph, and every recorded read leads to a created construct.
NoDangling ==
    /\ \A e \in edges : e[2] \in created
    /\ \A x \in flowLogs : x.vpc \in Ids(vpcs) /\ x.destination \in Ids(logGroups)
    /\ \A x \in endpoints : x.vpc \in Ids(vpcs)
    /\ \A f \in functions :
         /\ f.vpc \in Ids(vpcs)
         /\ \A g \in f.role_policy : g.resource \in Ids(tables)
         /\ \A e \in f.environment : e.value \in {t.table_name : t \in tables}
    /\ \A a \in apis :
         /\ a.handler \in Ids(functions)
         /\ a.deployment_stage.access_log_destination \in Ids(logGroups)
    /\ \A s \in assocs :
         /\ s.resource_arn.restapis \in {a.rest_api_id : a \in apis}
         /\ s.web_acl_arn \in {w.attr_arn : w \in webAcls}
    /\ \A al \in alarms : al.metric.source \in created \cup {""}
    /\ Ids(vpcs) \cup Ids(logGroups) \cup Ids(flowLogs) \cup Ids(endpoints)
         \cup Ids(tables) \cup Ids(functions) \cup Ids(apis) \cup Ids(webAcls)
         \cup Ids(assocs) \cup Ids(alarms) \subseteq created

\* C5: every step of the pass reads only constructs created by an earlier
\* step, never removes a construct, and leaves a graph with no dangling
\* reference.
C5_DependencyOrder ==
    [][ /\ \A e \in edges' \ edges : e[2] \in created
        /\ created \subseteq created'
        /\ NoDangling' ]_vars

\* C5 case: the pass has finished with the whole graph built and wired.
C5_Witness ==
    /\ pc = "done"
    /\ Cardinality(created) = 18
    /\ <<"WebAclAssociation", "Endpoint">> \in edges
    /\ <<"ApiHandler", "Ingress">> \in edges

\* C6: the function's environment holds nothing but TABLE_NAME, whose value
\* is the generated name of the table the function may write to, not the
\* construct id; when the pass has finished, TABLE_NAME is there.
C6_EnvironmentIsTableName ==
    \A f \in functions :
        /\ \A e \in f.environment :
             /\ e.key = "TABLE_NAME"
             /\ e.value # Literal(TABLE_NAME)
             /\ \E t \in tables :
                  /\ e.value = t.table_name
                  /\ \E g \in f.role_policy : g.resource = t.id
        /\ Cardinality(f.environment) <= 1
        /\ pc = "done" => Cardinality(f.environment) = 1

\* C6 case: the pass has finished and the variable has been injected.
C6_Witness ==
    /\ pc = "done"
    /\ \E f \in functions : \E e \in f.environment : e.key = "TABLE_NAME"

\* C7: every subnet of the network is isolated, and the function sits in
\* at least one subnet, all of them isolated subnets of its own network.
C7_SubnetsIsolated ==
    /\ \A v \in vpcs : \A sn \in v.subnets : sn.subnet_type = "PRIVATE_ISOLATED"
    /\ \A f \in functions :
         /\ f.subnets # {}
         /\ \A sn \in f.subnets :
              /\ sn.subnet_type = "PRIVATE_ISOLATED"
              /\ \E v \in vpcs : v.id = f.vpc /\ sn \in v.subnets

\* C7 case: the function has been placed in a network of several subnets.
C7_Witness ==
    /\ pc = "done"
    /\ \E f \in functions : Cardinality(f.subnets) > 1

\* C8: the reserved concurrency is the stage's rate limit (100 requests per
\* second) times 0.5 s, plus a 20% buffer, which is 60.
C8_ReservedIsBufferedProduct ==
    \A f \in functions : \A a \in apis :
        /\ a.deployment_stage.throttling_rate_limit = 100
        /\ f.reserved_concurrent_executions =
             (((a.deployment_stage.throttling_rate_limit * AvgExecutionMs) \div 1000)
                * (100 + BufferPercent)) \div 100
        /\ f.reserved_concurrent_executions = 60

\* C8 case: the gateway has been created in front of the function.
C8_Witness ==
    \E a \in apis : \E f \in functions :
        a.handler = f.id /\ a.deployment_stage.throttling_burst_limit > 0

\* Actions that create, change or delete tables or items.
MutatingActions ==
    { <<"dynamodb", "Create", "Table">>, <<"dynamodb", "Update", "Table">>,
      <<"dynamodb", "Delete", "Table">>, <<"dynamodb", "Put", "Item">>,
      <<"dynamodb", "Update", "Item">>, <<"dynamodb", "Delete", "Item">>,
      <<"dynamodb", "Batch", "Write", "Item">> }

\* C9 as stated: every pattern of the endpoint policy is a List or Describe
\* action, and the policy allows no action that creates, changes or deletes
\* tables or items.
C9_PolicyListsAndDescribesOnly ==
    \A e \in endpoints : \A st \in e.policy :
        /\ \A p \in st.actions : p[2] \in {"List", "Describe"}
        /\ \A a \in MutatingActions : ~Allows(st.actions, a)

\* C10 as stated: every action the write grant gives the function's role is
\* allowed by the endpoint policy.
C10_GrantedWithinEndpointPolicy ==
    \A f \in functions : \A g \in f.role_policy : \A e \in endpoints :
        \A a \in g.actions : \E st \in e.policy : Allows(st.actions, a)

====
